---- MODULE Spec2Model ----
(***************************************************************************)
(* The APER encoder of codecs/src/aper/encode/mod.rs: one bit buffer       *)
(* (AperCodecData) and the public encode_* operations that append to it.   *)
(* Every operation is an operator from the buffer before the call and the  *)
(* arguments to the result of the call and the buffer after it; an action  *)
(* applies one operation to the buffer and records the call.               *)
(*                                                                         *)
(* Option<i128> is a set with at most one element: {} is None, {x} is      *)
(* Some(x). A Result is a record [res, data, ...]: res is "Ok" or the      *)
(* kind of the AperCodecError's message, data is the buffer as the call    *)
(* leaves it (a call that returns Err through `?` keeps what it wrote).    *)
(***************************************************************************)
EXTENDS Integers, Sequences, FiniteSets

VARIABLES data, call, ret, pre

vars == <<data, call, ret, pre>>

(* ------------------------------ bounds -------------------------------- *)

\* Calls are made on buffers of at most this many bits.
MaxPreLen == 2
\* Lower bounds range over -1..MaxBound, small upper bounds over 0..MaxBound.
MaxBound == 3
\* Short bit strings and octet strings have up to this many units; presence
\* bitmaps have up to this many bits.
MaxShortLen == 3
\* Short character strings have up to this many characters.
MaxChars == 2

(* ------------------------- program constants -------------------------- *)

\* Lengths from here on need fragmentation.
FragmentLimit == 16384
\* An upper bound below this makes a length determinant a constrained number.
ConstrainedLengthLimit == 65536
\* Bit strings longer than this are octet-aligned.
BitstringAlignOver == 16
\* Octet strings longer than this are octet-aligned.
OctetstringAlignOver == 2
\* Character strings longer than this are octet-aligned.
StringAlignOver == 2

(* ------------------------------ errors -------------------------------- *)

Ok == "Ok"
LessThanLowerBound == "is less than lower bound"
GreaterThanUpperBound == "is greater than upper bound"
NotYetImplemented == "not yet implemented"

BoundsViolation == {LessThanLowerBound, GreaterThanUpperBound}

\* Result of a call: afterLen is the buffer's length when the length
\* determinant has been written, det the length it was asked to carry
\* (both 0 where the call writes no length determinant).
Res(r, d) == [res |-> r, data |-> d, afterLen |-> 0, det |-> 0]

(* ----------------------------- bit helpers ---------------------------- *)

RECURSIVE Pow2(_)
Pow2(n) == IF n = 0 THEN 1 ELSE 2 * Pow2(n - 1)

\* v in n bits, most significant bit first.
ToBits(v, n) == [i \in 1..n |-> (v \div Pow2(n - i)) % 2]

Zeros(n) == [i \in 1..n |-> 0]

\* The eight bits of every octet, most significant bit first (Msb0).
OctetBits == [b \in 0..255 |-> ToBits(b, 8)]

\* Vec<u8>::view_bits::<Msb0>(): the octets' bits, in order, MSB first.
RECURSIVE view_bits(_)
view_bits(octets) ==
    IF Len(octets) = 0 THEN <<>>
    ELSE IF Len(octets) = 1 THEN OctetBits[octets[1]]
    ELSE LET h == Len(octets) \div 2
         IN  view_bits(SubSeq(octets, 1, h)) \o view_bits(SubSeq(octets, h + 1, Len(octets)))

\* The UTF-8 octets of one character (a code point below 65536).
Utf8(cp) ==
    IF cp < 128 THEN <<cp>>
    ELSE IF cp < 2048 THEN <<192 + (cp \div 64), 128 + (cp % 64)>>
    ELSE <<224 + (cp \div 4096), 128 + ((cp \div 64) % 64), 128 + (cp % 64)>>

\* A String is its UTF-8 octets (Rust's String is a Vec<u8> of valid UTF-8):
\* the octets of a sequence of characters, concatenated.
RECURSIVE StringBytes(_)
StringBytes(s) ==
    IF Len(s) = 0 THEN <<>>
    ELSE IF Len(s) = 1 THEN Utf8(s[1])
    ELSE LET h == Len(s) \div 2
         IN  StringBytes(SubSeq(s, 1, h)) \o StringBytes(SubSeq(s, h + 1, Len(s)))

\* String::len(): the number of octets.
string_len(value) == Len(value)

\* String::as_bits(): the octets' bits.
as_bits(value) == view_bits(value)

\* The number of characters of a String: its octets that are not UTF-8
\* continuation octets (10xxxxxx).
CharCount(value) == Cardinality({i \in 1..Len(value) : value[i] \div 64 # 2})

(* ------------------- AperCodecData (the bit buffer) ------------------- *)

\* AperCodecData::encode_bool: one bit, 1 for true.
data_encode_bool(d, value) == Append(d, IF value THEN 1 ELSE 0)

\* AperCodecData::align: zero bits up to the next octet boundary.
data_align(d) == d \o Zeros((8 - (Len(d) % 8)) % 8)

\* AperCodecData::append_bits: the bits verbatim, in order.
data_append_bits(d, bits) == d \o bits

(* ------------------ encode_internal (whole numbers) ------------------- *)

\* ceil(log2(range + 1)): the bits that hold every value of 0..range.
RECURSIVE BitsNeeded(_)
BitsNeeded(range) == IF range <= 0 THEN 0 ELSE 1 + BitsNeeded(range \div 2)

\* The octets that hold the unsigned value v, at least one.
RECURSIVE OctetsNeeded(_)
OctetsNeeded(v) == IF v < 256 THEN 1 ELSE 1 + OctetsNeeded(v \div 256)

\* The octets of the minimal two's-complement form of v.
RECURSIVE SignedOctetsNeeded(_)
SignedOctetsNeeded(v) ==
    IF -128 <= v /\ v < 128 THEN 1
    ELSE 1 + SignedOctetsNeeded(IF v < 0 THEN -((-v + 255) \div 256) ELSE v \div 256)

\* The indefinite-length form: one octet below 128, two octets (10 and 14
\* bits) below 16384, octet-aligned; longer lengths need fragmentation.
encode_indefinite_length_determinent(d, value) ==
    IF value < 128 THEN Res(Ok, data_append_bits(data_align(d), ToBits(value, 8)))
    ELSE IF value < FragmentLimit
    THEN Res(Ok, data_append_bits(data_align(d), ToBits(32768 + value, 16)))
    ELSE Res(NotYetImplemented, d)

\* The normally-small length form is rejected.
encode_normally_small_length_determinent(d, value) == Res(NotYetImplemented, d)

\* value - lb in ceil(log2(range + 1)) bits when the range fits one octet,
\* else octet-aligned in the minimal number of octets for the range.
encode_constrained_whole_number(d, lb, ub, value) ==
    LET range == ub - lb
        v == value - lb
    IN  IF range < 256
        THEN Res(Ok, data_append_bits(d, ToBits(v, BitsNeeded(range))))
        ELSE Res(Ok, data_append_bits(data_align(d),
                                      ToBits(v, 8 * OctetsNeeded(range))))

\* value - lb as a minimal-octet unsigned number after its length.
encode_semi_constrained_whole_number(d, lb, value) ==
    LET v == value - lb
        n == OctetsNeeded(v)
        l == encode_indefinite_length_determinent(d, n)
    IN  IF l.res # Ok THEN l
        ELSE Res(Ok, data_append_bits(l.data, ToBits(v, 8 * n)))

\* value as a minimal-octet two's-complement number after its length.
encode_unconstrained_whole_number(d, value) ==
    LET n == SignedOctetsNeeded(value)
        l == encode_indefinite_length_determinent(d, n)
    IN  IF l.res # Ok THEN l
        ELSE Res(Ok, data_append_bits(l.data,
                                      ToBits((value + Pow2(8 * n)) % Pow2(8 * n), 8 * n)))

(* ------------------------- the public encoders ------------------------ *)

\* check_bounds with the lower bound compared by <= .
check_bounds_inclusive_lower(value, lb, ub) ==
    IF \E l \in lb : value <= l THEN LessThanLowerBound
    ELSE IF \E u \in ub : value > u THEN GreaterThanUpperBound
    ELSE Ok

\* check_bounds: the lower bound is looked at first.
check_bounds(value, lb, ub) ==
    IF \E l \in lb : value < l THEN LessThanLowerBound
    ELSE IF \E u \in ub : value > u THEN GreaterThanUpperBound
    ELSE Ok

encode_integer(d, lb, ub, is_extensible, value, extended) ==
    LET cb == check_bounds(value, lb, ub)
        d1 == IF is_extensible THEN data_encode_bool(d, extended) ELSE d
    IN  IF cb # Ok THEN Res(cb, d)
        ELSE IF extended THEN Res(NotYetImplemented, d)
        ELSE IF lb = {} THEN encode_unconstrained_whole_number(d1, value)
        ELSE IF ub = {}
        THEN encode_semi_constrained_whole_number(d1, CHOOSE l \in lb : TRUE, value)
        ELSE encode_constrained_whole_number(d1, CHOOSE l \in lb : TRUE,
                                             CHOOSE u \in ub : TRUE, value)

\* encode_choice_idx without the early return on extended.
encode_choice_idx_extended_unchecked(d, lb, ub, is_extensible, idx, extended) ==
    LET cb == check_bounds(idx, {lb}, {ub})
        d1 == IF is_extensible THEN data_encode_bool(d, extended) ELSE d
    IN  IF cb # Ok THEN Res(cb, d)
        ELSE encode_integer(d1, {lb}, {ub}, FALSE, idx, FALSE)

encode_choice_idx(d, lb, ub, is_extensible, idx, extended) ==
    LET cb == check_bounds(idx, {lb}, {ub})
        d1 == IF is_extensible THEN data_encode_bool(d, extended) ELSE d
    IN  IF cb # Ok THEN Res(cb, d)
        ELSE IF extended THEN Res(NotYetImplemented, d)
        ELSE encode_integer(d1, {lb}, {ub}, FALSE, idx, FALSE)

\* encode_sequence_header with the extension marker after the bitmap.
encode_sequence_header_marker_last(d, is_extensible, optionals, extended) ==
    LET d1 == data_append_bits(d, optionals)
    IN  IF extended THEN Res(NotYetImplemented, d)
        ELSE Res(Ok, IF is_extensible THEN data_encode_bool(d1, extended) ELSE d1)

encode_sequence_header(d, is_extensible, optionals, extended) ==
    LET d1 == IF is_extensible THEN data_encode_bool(d, extended) ELSE d
    IN  IF extended THEN Res(NotYetImplemented, d)
        ELSE Res(Ok, data_append_bits(d1, optionals))

\* encode_bool writing the opposite bit.
encode_bool_inverted(d, value) == Res(Ok, data_encode_bool(d, ~value))

encode_bool(d, value) == Res(Ok, data_encode_bool(d, value))

\* encode_enumerated with the extension marker written before the checks.
encode_enumerated_marker_before_check(d, lb, ub, is_extensible, value, extended) ==
    LET cb == check_bounds(value, lb, ub)
        d1 == IF is_extensible THEN data_encode_bool(d, extended) ELSE d
    IN  IF cb # Ok THEN Res(cb, d1)
        ELSE IF extended THEN Res(NotYetImplemented, d1)
        ELSE encode_integer(d1, lb, ub, FALSE, value, FALSE)

encode_enumerated(d, lb, ub, is_extensible, value, extended) ==
    LET cb == check_bounds(value, lb, ub)
        d1 == IF is_extensible THEN data_encode_bool(d, extended) ELSE d
    IN  IF cb # Ok THEN Res(cb, d)
        ELSE IF extended THEN Res(NotYetImplemented, d)
        ELSE encode_integer(d1, lb, ub, FALSE, value, FALSE)

encode_length_determinent(d, lb, ub, normally_small, value) ==
    LET cb == check_bounds(value, lb, ub)
    IN  IF cb # Ok THEN Res(cb, d)
        ELSE IF normally_small
        THEN encode_normally_small_length_determinent(d, value)
        ELSE IF \E u \in ub : u < ConstrainedLengthLimit
        THEN encode_constrained_whole_number(
                 d, IF lb = {} THEN 0 ELSE CHOOSE l \in lb : TRUE,
                 CHOOSE u \in ub : TRUE, value)
        ELSE encode_indefinite_length_determinent(d, value)

\* encode_bitstring aligning one bit later (length > 17).
encode_bitstring_align_late(d, lb, ub, is_extensible, bit_string, extended) ==
    LET cb == check_bounds(Len(bit_string), lb, ub)
        d1 == IF is_extensible THEN data_encode_bool(d, extended) ELSE d
        length == Len(bit_string)
        l == encode_length_determinent(d1, lb, ub, FALSE, length)
        d2 == IF length > BitstringAlignOver + 1 THEN data_align(l.data) ELSE l.data
    IN  IF cb # Ok THEN Res(cb, d)
        ELSE IF extended THEN Res(NotYetImplemented, d)
        ELSE IF length >= FragmentLimit THEN Res(NotYetImplemented, d1)
        ELSE IF l.res # Ok THEN l
        ELSE [res |-> Ok,
              data |-> IF length > 0 THEN data_append_bits(d2, bit_string) ELSE l.data,
              afterLen |-> Len(l.data), det |-> length]

encode_bitstring(d, lb, ub, is_extensible, bit_string, extended) ==
    LET cb == check_bounds(Len(bit_string), lb, ub)
        d1 == IF is_extensible THEN data_encode_bool(d, extended) ELSE d
        length == Len(bit_string)
        l == encode_length_determinent(d1, lb, ub, FALSE, length)
        d2 == IF length > BitstringAlignOver THEN data_align(l.data) ELSE l.data
    IN  IF cb # Ok THEN Res(cb, d)
        ELSE IF extended THEN Res(NotYetImplemented, d)
        ELSE IF length >= FragmentLimit THEN Res(NotYetImplemented, d1)
        ELSE IF l.res # Ok THEN l
        ELSE [res |-> Ok,
              data |-> IF length > 0 THEN data_append_bits(d2, bit_string) ELSE l.data,
              afterLen |-> Len(l.data), det |-> length]

\* encode_octetstring with the fragmentation check off by one (length >= 16383).
encode_octetstring_fragment_off_by_one(d, lb, ub, is_extensible, octet_string, extended) ==
    LET cb == check_bounds(Len(octet_string), lb, ub)
        d1 == IF is_extensible THEN data_encode_bool(d, extended) ELSE d
        length == Len(octet_string)
        l == encode_length_determinent(d1, lb, ub, FALSE, length)
        d2 == IF length > OctetstringAlignOver THEN data_align(l.data) ELSE l.data
    IN  IF cb # Ok THEN Res(cb, d)
        ELSE IF extended THEN Res(NotYetImplemented, d)
        ELSE IF length >= FragmentLimit - 1 THEN Res(NotYetImplemented, d1)
        ELSE IF l.res # Ok THEN l
        ELSE [res |-> Ok,
              data |-> IF length > 0
                       THEN data_append_bits(d2, view_bits(octet_string))
                       ELSE l.data,
              afterLen |-> Len(l.data), det |-> length]

encode_octetstring(d, lb, ub, is_extensible, octet_string, extended) ==
    LET cb == check_bounds(Len(octet_string), lb, ub)
        d1 == IF is_extensible THEN data_encode_bool(d, extended) ELSE d
        length == Len(octet_string)
        l == encode_length_determinent(d1, lb, ub, FALSE, length)
        d2 == IF length > OctetstringAlignOver THEN data_align(l.data) ELSE l.data
    IN  IF cb # Ok THEN Res(cb, d)
        ELSE IF extended THEN Res(NotYetImplemented, d)
        ELSE IF length >= FragmentLimit THEN Res(NotYetImplemented, d1)
        ELSE IF l.res # Ok THEN l
        ELSE [res |-> Ok,
              data |-> IF length > 0
                       THEN data_append_bits(d2, view_bits(octet_string))
                       ELSE l.data,
              afterLen |-> Len(l.data), det |-> length]

\* encode_string storing the string's bits as the buffer instead of
\* appending them.
encode_string_overwrite(d, lb, ub, is_extensible, value, extended) ==
    LET cb == check_bounds(string_len(value), lb, ub)
        d1 == IF is_extensible THEN data_encode_bool(d, extended) ELSE d
        l == encode_length_determinent(d1, lb, ub, FALSE, string_len(value))
    IN  IF cb # Ok THEN Res(cb, d)
        ELSE IF extended THEN Res(NotYetImplemented, d)
        ELSE IF l.res # Ok THEN l
        ELSE [res |-> Ok, data |-> as_bits(value),
              afterLen |-> Len(l.data), det |-> string_len(value)]

encode_string(d, lb, ub, is_extensible, value, extended) ==
    LET cb == check_bounds(string_len(value), lb, ub)
        d1 == IF is_extensible THEN data_encode_bool(d, extended) ELSE d
        l == encode_length_determinent(d1, lb, ub, FALSE, string_len(value))
        d2 == IF string_len(value) > StringAlignOver THEN data_align(l.data) ELSE l.data
    IN  IF cb # Ok THEN Res(cb, d)
        ELSE IF extended THEN Res(NotYetImplemented, d)
        ELSE IF l.res # Ok THEN l
        ELSE [res |-> Ok, data |-> data_append_bits(d2, as_bits(value)),
              afterLen |-> Len(l.data), det |-> string_len(value)]

encode_visible_string(d, lb, ub, is_extensible, value, extended) ==
    encode_string(d, lb, ub, is_extensible, value, extended)

encode_printable_string(d, lb, ub, is_extensible, value, extended) ==
    encode_string(d, lb, ub, is_extensible, value, extended)

encode_utf8_string(d, lb, ub, is_extensible, value, extended) ==
    encode_string(d, lb, ub, is_extensible, value, extended)

\* The AperCodec::encode derived for a BOOLEAN newtype Self(bool).
aper_codec_encode(self, d) == encode_bool(d, self)

(* ------------------------------- inputs ------------------------------- *)

Bit == {0, 1}

\* Every sequence over S of length at most n.
SeqsUpTo(S, n) == UNION {[1..k -> S] : k \in 0..n}

None == {}
Some(x) == {x}

\* Lower bounds, and upper bounds: the small ones, one that admits a bit
\* string over the alignment threshold with a short length determinant, and
\* two that make the length determinant a two-octet constrained number and
\* an indefinite one.
LowerBounds == {None} \cup {Some(b) : b \in (-1)..MaxBound}
UpperBounds == {None} \cup {Some(b) : b \in 0..MaxBound}
                      \cup {Some(BitstringAlignOver + 1), Some(FragmentLimit),
                            Some(ConstrainedLengthLimit)}

\* Integer, enumerated and choice values: inside and outside the bounds.
Values == (-2)..(MaxBound + 1)

\* Lengths handed to encode_length_determinent (a usize).
Lengths == 0..(MaxBound + 1) \cup {FragmentLimit - 1, FragmentLimit}

\* Lengths around the fragmentation limit.
LongLengths == {FragmentLimit - 1, FragmentLimit}

ShortBitStrings == SeqsUpTo(Bit, MaxShortLen)
\* Bit strings at and just over the alignment threshold.
AlignBitStrings == {[i \in 1..n |-> 1] : n \in {BitstringAlignOver, BitstringAlignOver + 1}}
LongBitStrings == {[i \in 1..n |-> 1] : n \in LongLengths}

ShortOctetStrings == SeqsUpTo({0, 165}, MaxShortLen)
LongOctetStrings == {[i \in 1..n |-> 255] : n \in LongLengths}

\* Strings of 'a' (one octet) and 'e acute' (two octets).
ShortStrings == {StringBytes(s) : s \in SeqsUpTo({97, 233}, MaxChars)}
LongStrings == {[i \in 1..n |-> 97] : n \in LongLengths}

\* Presence bitmaps.
Bitmaps == SeqsUpTo(Bit, MaxShortLen)

(* ------------------------------- actions ------------------------------ *)

\* AperCodecData::new(): an empty buffer, no call made yet.
Idle == [op |-> "idle"]
NoRet == [res |-> Ok, afterLen |-> 0, det |-> 0]

Init ==
    /\ data = <<>>
    /\ pre = <<>>
    /\ call = Idle
    /\ ret = NoRet

\* A call can be made when the previous one has returned; values around the
\* fragmentation limit are encoded into a fresh buffer.
CanCall == call = Idle /\ Len(data) <= MaxPreLen
CanCallLong == call = Idle /\ data = <<>>

\* One call of an operation on the buffer: the call and its result are
\* recorded, the buffer is what the call leaves.
Do(c, r) ==
    /\ pre' = data
    /\ call' = c
    /\ ret' = [res |-> r.res, afterLen |-> r.afterLen, det |-> r.det]
    /\ data' = r.data

Args(op, lb, ub, e, v, x) ==
    [op |-> op, lb |-> lb, ub |-> ub, is_extensible |-> e, value |-> v, extended |-> x]

EncodeInteger ==
    /\ CanCall
    /\ \E lb \in LowerBounds, ub \in UpperBounds, e \in BOOLEAN, v \in Values, x \in BOOLEAN :
        Do(Args("encode_integer", lb, ub, e, v, x), encode_integer(data, lb, ub, e, v, x))

EncodeEnumerated ==
    /\ CanCall
    /\ \E lb \in LowerBounds, ub \in UpperBounds, e \in BOOLEAN, v \in Values, x \in BOOLEAN :
        Do(Args("encode_enumerated", lb, ub, e, v, x),
           encode_enumerated(data, lb, ub, e, v, x))

EncodeChoiceIdx ==
    /\ CanCall
    /\ \E lb \in (-1)..MaxBound, ub \in 0..MaxBound, e \in BOOLEAN, v \in Values,
       x \in BOOLEAN :
        Do(Args("encode_choice_idx", Some(lb), Some(ub), e, v, x),
           encode_choice_idx(data, lb, ub, e, v, x))

EncodeSequenceHeader ==
    /\ CanCall
    /\ \E e \in BOOLEAN, o \in Bitmaps, x \in BOOLEAN :
        Do(Args("encode_sequence_header", None, None, e, o, x),
           encode_sequence_header(data, e, o, x))

EncodeBool ==
    /\ CanCall
    /\ \E v \in BOOLEAN :
        Do(Args("encode_bool", None, None, FALSE, v, FALSE), encode_bool(data, v))

AperCodecEncode ==
    /\ CanCall
    /\ \E self \in BOOLEAN :
        Do(Args("AperCodec::encode", None, None, FALSE, self, FALSE),
           aper_codec_encode(self, data))

EncodeBitstring ==
    \/ /\ CanCall
       /\ \E lb \in LowerBounds, ub \in UpperBounds, e \in BOOLEAN,
          v \in ShortBitStrings \cup AlignBitStrings, x \in BOOLEAN :
           Do(Args("encode_bitstring", lb, ub, e, v, x),
              encode_bitstring(data, lb, ub, e, v, x))
    \/ /\ CanCallLong
       /\ \E lb \in LowerBounds, ub \in UpperBounds, e \in BOOLEAN,
          v \in LongBitStrings, x \in BOOLEAN :
           Do(Args("encode_bitstring", lb, ub, e, v, x),
              encode_bitstring(data, lb, ub, e, v, x))

EncodeOctetstring ==
    \/ /\ CanCall
       /\ \E lb \in LowerBounds, ub \in UpperBounds, e \in BOOLEAN,
          v \in ShortOctetStrings, x \in BOOLEAN :
           Do(Args("encode_octetstring", lb, ub, e, v, x),
              encode_octetstring(data, lb, ub, e, v, x))
    \/ /\ CanCallLong
       /\ \E lb \in LowerBounds, ub \in UpperBounds, e \in BOOLEAN,
          v \in LongOctetStrings, x \in BOOLEAN :
           Do(Args("encode_octetstring", lb, ub, e, v, x),
              encode_octetstring(data, lb, ub, e, v, x))

EncodeLengthDeterminent ==
    /\ CanCall
    /\ \E lb \in LowerBounds, ub \in UpperBounds, n \in BOOLEAN, v \in Lengths :
        Do([op |-> "encode_length_determinent", lb |-> lb, ub |-> ub,
            is_extensible |-> FALSE, value |-> v, extended |-> FALSE,
            normally_small |-> n],
           encode_length_determinent(data, lb, ub, n, v))

EncodeVisibleString ==
    \/ /\ CanCall
       /\ \E lb \in LowerBounds, ub \in UpperBounds, e \in BOOLEAN,
          v \in ShortStrings, x \in BOOLEAN :
           Do(Args("encode_visible_string", lb, ub, e, v, x),
              encode_visible_string(data, lb, ub, e, v, x))
    \/ /\ CanCallLong
       /\ \E lb \in LowerBounds, ub \in UpperBounds, e \in BOOLEAN,
          v \in LongStrings, x \in BOOLEAN :
           Do(Args("encode_visible_string", lb, ub, e, v, x),
              encode_visible_string(data, lb, ub, e, v, x))

EncodePrintableString ==
    \/ /\ CanCall
       /\ \E lb \in LowerBounds, ub \in UpperBounds, e \in BOOLEAN,
          v \in ShortStrings, x \in BOOLEAN :
           Do(Args("encode_printable_string", lb, ub, e, v, x),
              encode_printable_string(data, lb, ub, e, v, x))
    \/ /\ CanCallLong
       /\ \E lb \in LowerBounds, ub \in UpperBounds, e \in BOOLEAN,
          v \in LongStrings, x \in BOOLEAN :
           Do(Args("encode_printable_string", lb, ub, e, v, x),
              encode_printable_string(data, lb, ub, e, v, x))

EncodeUtf8String ==
    \/ /\ CanCall
       /\ \E lb \in LowerBounds, ub \in UpperBounds, e \in BOOLEAN,
          v \in ShortStrings, x \in BOOLEAN :
           Do(Args("encode_utf8_string", lb, ub, e, v, x),
              encode_utf8_string(data, lb, ub, e, v, x))
    \/ /\ CanCallLong
       /\ \E lb \in LowerBounds, ub \in UpperBounds, e \in BOOLEAN,
          v \in LongStrings, x \in BOOLEAN :
           Do(Args("encode_utf8_string", lb, ub, e, v, x),
              encode_utf8_string(data, lb, ub, e, v, x))

\* The call has returned: its caller goes on to the next field of the value
\* tree with the same buffer.
Return ==
    /\ call # Idle
    /\ Len(data) <= MaxPreLen
    /\ call' = Idle
    /\ ret' = NoRet
    /\ pre' = data
    /\ UNCHANGED data

Next ==
    \/ EncodeInteger
    \/ EncodeEnumerated
    \/ EncodeChoiceIdx
    \/ EncodeSequenceHeader
    \/ EncodeBool
    \/ AperCodecEncode
    \/ EncodeBitstring
    \/ EncodeOctetstring
    \/ EncodeLengthDeterminent
    \/ EncodeVisibleString
    \/ EncodePrintableString
    \/ EncodeUtf8String
    \/ Return

Spec == Init /\ [][Next]_vars

(* ------------------------- the recorded call -------------------------- *)

IntegerOps == {"encode_integer", "encode_enumerated", "encode_choice_idx"}
StringOps == {"encode_visible_string", "encode_printable_string", "encode_utf8_string"}
UnitStringOps == {"encode_bitstring", "encode_octetstring"}
BoundedOps == IntegerOps \cup UnitStringOps \cup StringOps \cup {"encode_length_determinent"}
ExtendedOps == IntegerOps \cup UnitStringOps \cup StringOps \cup {"encode_sequence_header"}

\* What the call's bounds constrain: the value of a number, the length in
\* bits of a bit string, in octets of an octet string or a character string.
Measured ==
    IF call.op \in IntegerOps \cup {"encode_length_determinent"}
    THEN call.value
    ELSE Len(call.value)

BelowLb(n) == \E l \in call.lb : n < l
AboveUb(n) == \E u \in call.ub : n > u
OutOfBounds == BelowLb(Measured) \/ AboveUb(Measured)

\* The bits of the content the call appends last.
Content ==
    IF call.op = "encode_bitstring" THEN call.value ELSE view_bits(call.value)

\* The buffer's length where the first content bit is appended.
ContentStart == Len(data) - Len(Content)

IsPrefix(a, b) == Len(a) <= Len(b) /\ SubSeq(b, 1, Len(a)) = a

(* ------------------------------- claims ------------------------------- *)

\* C1: encode_integer called with extended = false returns an error if and
\* only if the value is below a present lower bound or above a present upper
\* bound; every in-range value succeeds, unconstrained, semi-constrained or
\* constrained.
C1_IntegerFailsIffOutOfBounds ==
    (call.op = "encode_integer" /\ ~call.extended) =>
        ((ret.res # Ok) <=> (BelowLb(call.value) \/ AboveUb(call.value)))

\* encode_integer(lb = -1, ub = 0, value = 1) has failed.
C1_Witness ==
    /\ call.op = "encode_integer"
    /\ ~call.extended
    /\ call.lb = Some(-1) /\ call.ub = Some(0) /\ call.value = 1
    /\ ret.res = GreaterThanUpperBound

\* C2: encode_bitstring and encode_octetstring called with extended = false
\* return an error if and only if the length is below lb, above ub, or at
\* least 16384; every other length, 0 included, succeeds.
C2_UnitStringFailsIffBoundsOrFragment ==
    (call.op \in UnitStringOps /\ ~call.extended) =>
        ((ret.res # Ok) <=>
            (BelowLb(Len(call.value)) \/ AboveUb(Len(call.value))
                \/ Len(call.value) >= 16384))

\* An octet string of 16384 octets, within its bounds, has been rejected.
C2_Witness ==
    /\ call.op = "encode_octetstring"
    /\ ~call.extended
    /\ Len(call.value) = 16384
    /\ call.ub = Some(16384)
    /\ ~OutOfBounds
    /\ ret.res = NotYetImplemented

\* C3: whenever the value or length is below lb or above ub, the integer,
\* enumerated, choice-index, bit-string, octet-string, length-determinant and
\* character-string encoders return a bounds-violation error and leave the
\* buffer exactly as it was, whatever is_extensible and extended are. (The
\* length of a character string is the one its encoder measures, in octets.)
C3_BoundsViolationWritesNothing ==
    (call.op \in BoundedOps /\ OutOfBounds) =>
        (ret.res \in BoundsViolation /\ data = pre)

\* An out-of-bounds extensible, extended bit string has been rejected on a
\* buffer that held bits.
C3_Witness ==
    /\ call.op = "encode_bitstring"
    /\ call.is_extensible /\ call.extended
    /\ OutOfBounds
    /\ pre # <<>>
    /\ ret.res \in BoundsViolation

\* C4, as claimed: every call with extended = true returns the not-yet-
\* implemented error, never a bounds violation, and writes no bits.
C4_ExtendedAlwaysNotImplemented ==
    (call.op \in ExtendedOps /\ call.extended) =>
        (ret.res = NotYetImplemented /\ data = pre)

\* C4, amended: every call with extended = true fails and writes no bits; the
\* error is the bounds violation when the value or length is outside the
\* bounds (the bounds are checked first) and not-yet-implemented otherwise.
C4_ExtendedRejected ==
    (call.op \in ExtendedOps /\ call.extended) =>
        /\ ret.res # Ok
        /\ data = pre
        /\ OutOfBounds => ret.res \in BoundsViolation
        /\ ~OutOfBounds => ret.res = NotYetImplemented

\* An in-bounds extended choice index of an extensible CHOICE has been
\* rejected as not yet implemented.
C4_Witness ==
    /\ call.op = "encode_choice_idx"
    /\ call.is_extensible /\ call.extended
    /\ ~OutOfBounds
    /\ pre # <<>>
    /\ ret.res = NotYetImplemented

\* C5: when encode_octetstring succeeds on more than 2 octets, or
\* encode_bitstring on more than 16 bits, the content starts at a multiple of
\* 8 bits, after at most 7 padding bits that are all zero; for shorter
\* non-empty strings the content follows the length determinant directly.
C5_ContentAligned ==
    (call.op \in UnitStringOps /\ ret.res = Ok /\ Len(call.value) > 0) =>
        /\ ContentStart >= ret.afterLen
        /\ SubSeq(data, ContentStart + 1, Len(data)) = Content
        /\ IF Len(call.value) > (IF call.op = "encode_bitstring" THEN 16 ELSE 2)
           THEN /\ ContentStart % 8 = 0
                /\ ContentStart - ret.afterLen <= 7
                /\ \A i \in (ret.afterLen + 1)..ContentStart : data[i] = 0
           ELSE ContentStart = ret.afterLen

\* Seven padding bits were added before the content of a 3-octet string.
C5_Witness ==
    /\ call.op = "encode_octetstring"
    /\ ret.res = Ok
    /\ Len(call.value) = 3
    /\ ContentStart - ret.afterLen = 7

\* C6: encode_bool, and the AperCodec::encode derived for a BOOLEAN newtype,
\* never fail and append exactly one bit, 1 for true and 0 for false, with
\* no padding.
C6_BoolAppendsOneBit ==
    (call.op \in {"encode_bool", "AperCodec::encode"}) =>
        /\ ret.res = Ok
        /\ Len(data) = Len(pre) + 1
        /\ SubSeq(data, 1, Len(pre)) = pre
        /\ data[Len(data)] = (IF call.value THEN 1 ELSE 0)

\* encode_bool(true) on an empty buffer has left the single bit 1.
C6_Witness ==
    /\ call.op = "encode_bool"
    /\ call.value
    /\ pre = <<>>
    /\ data = <<1>>

\* C7: encode_sequence_header with extended = false succeeds and leaves the
\* buffer as it was, followed by one 0 bit iff is_extensible, followed by
\* the presence bitmap verbatim; nothing else is written.
C7_SequenceHeaderBits ==
    (call.op = "encode_sequence_header" /\ ~call.extended) =>
        /\ ret.res = Ok
        /\ data = pre \o (IF call.is_extensible THEN <<0>> ELSE <<>>) \o call.value
        /\ Len(data) = Len(pre) + Len(call.value) + (IF call.is_extensible THEN 1 ELSE 0)

\* An extensible sequence's header with a mixed bitmap was appended to a
\* buffer that held bits.
C7_Witness ==
    /\ call.op = "encode_sequence_header"
    /\ ~call.extended /\ call.is_extensible
    /\ call.value = <<1, 0, 1>>
    /\ pre # <<>>
    /\ ret.res = Ok

\* C8, as claimed: with extended = false a character-string encoder fails
\* with a bounds violation if and only if the string's character count is
\* below lb or above ub, and the length determinant carries that count.
C8_CharacterCountBounds ==
    (call.op \in StringOps /\ ~call.extended) =>
        /\ (ret.res \in BoundsViolation) <=>
               (BelowLb(CharCount(call.value)) \/ AboveUb(CharCount(call.value)))
        /\ ret.res = Ok => ret.det = CharCount(call.value)

\* C9: the buffer is append-only: the contents before each call are a prefix
\* of the contents after it, whether the call succeeds or fails.
C9_AppendOnly == IsPrefix(pre, data)

\* A successful call has added more than an octet to a buffer that held bits.
C9_Witness ==
    /\ call # Idle
    /\ ret.res = Ok
    /\ pre # <<>>
    /\ Len(data) > Len(pre) + 8

\* C10, as claimed: a call that returns an error leaves the buffer exactly
\* as it was before the call.
C10_AtomicOnFailure ==
    (call # Idle /\ ret.res # Ok) => data = pre

====
